---- MODULE Spec2Model ----
(***************************************************************************)
(* A model of the improv actor runtime: TokioActorDriver (register, the    *)
(* per-actor dispatch loop, stop, generate_snowflake), ActorRef (send,     *)
(* clone, drop, eq) and the ActorSystem facade.                            *)
(***************************************************************************)
EXTENDS Integers, Sequences, FiniteSets, TLC

\* ---- bounds of the model ----
NumSenders == 2     \* threads that call ActorRef::send
MaxMsgs == 3        \* send calls in one behaviour
MaxRefs == 2        \* live clones of one actor's handle
MaxMs == 1          \* milliseconds the clock advances after the epoch
MaxCalls == 65538   \* calls of generate_snowflake in one behaviour

\* ---- program constants ----
CounterBits == 16   \* sf_increment: AtomicU16

\* the registration whose handle is kept and whose dispatch loop is followed;
\* the loops of different actors share nothing but the running flag, which
\* no loop writes, and the id generator (see SpecIds for further registrations)
Actors == {1}
Senders == 1..NumSenders
Msgs == 1..MaxMsgs

RECURSIVE Pow2(_)
Pow2(n) == IF n = 0 THEN 1 ELSE 2 * Pow2(n - 1)

CounterMod == Pow2(CounterBits)

StartResults == {"Success", "GracefulEnd", "Crashing"}
HandleResults == {"Success", "GracefulEnd", "Crashing"}

VARIABLES
    running,        \* TokioActorDriver.is_running (shared with ActorSystem)
    flagPreset,     \* history: the embedding code stored true in the flag before use
    stopCalled,     \* history: ActorSystem::stop has returned at least once
    stopLen,        \* history, per actor: Len(handled) when stop first returned
    sf_increment,   \* TokioActorDriver.sf_increment
    now,            \* Instant::now() - sf_epoch, in milliseconds
    probe,          \* id of the latest handle that was registered, compared and dropped
    calls,          \* history: calls of generate_snowflake so far
    probeCall,      \* history: index of the call that produced probe
    probeMs,        \* history: elapsed milliseconds read by that call
    idCall,         \* history, per actor: index of the call that produced id
    idMs,           \* history, per actor: elapsed milliseconds read by that call
    startResult,    \* per actor: what start() returned ("none": not registered)
    starts,         \* history, per actor: invocations of start()
    regState,       \* history, per actor: the state register computed from start()
    id,             \* per actor: ActorRef.id
    state,          \* per actor: the shared RwLock<ActorState> cell
    err,            \* per actor: register returned Some(e)
    refs,           \* per actor: live ActorRef clones (owners of the Arc'ed sender)
    liveDropLen,    \* history, per actor: Len(handled) when the last handle was dropped with the actor Healthy and the flag true (-1: no such drop)
    rxAlive,        \* per actor: the receiver has not been dropped
    queue,          \* per actor: messages in the unbounded channel
    lpc,            \* per actor: position of the dispatch loop task
    cur,            \* per actor: msg bound by `if let Some(msg)`
    lastRes,        \* per actor: what the handle() call in flight returned
    handled,        \* history, per actor: messages handle() was invoked with
    consumed,       \* history, per actor: messages rx.next() has yielded
    termRes,        \* history, per actor: first non-Success return of handle()
    termLen,        \* history, per actor: Len(handled) at that return
    inFlight,       \* history, per actor: handle() invocations that have not returned
    spc,            \* per sender: position inside send
    starget,        \* per sender: actor of the handle it sends on
    smsg,           \* per sender: message of the send in progress
    sseen,          \* per sender: the state read under the read guard
    nextMsg,        \* next fresh message
    msgActor,       \* history, per message: actor it was sent to (0: not sent)
    msgRes,         \* history, per message: what send returned
    msgSeen,        \* history, per message: the state send read
    sentBefore,     \* history, per message: sends to the same actor that had returned Ok when send was called
    callTerm        \* history, per message: termRes of the actor when send was called

vars == <<running, flagPreset, stopCalled, stopLen, sf_increment, now, probe, calls,
          probeCall, probeMs, idCall, idMs, startResult, starts, regState, id, idCall, idMs, state,
          err, refs, liveDropLen, rxAlive, queue, lpc, cur, lastRes, handled, consumed,
          termRes, termLen, inFlight, spc, starget, smsg, sseen, nextMsg, msgActor, msgRes, msgSeen,
          sentBefore, callTerm>>

driverVars == <<running, flagPreset, stopCalled, stopLen>>
idVars == <<sf_increment, now, probe, calls, probeCall, probeMs>>
actorVars == <<startResult, starts, regState, id, idCall, idMs, state, err, refs, liveDropLen, rxAlive, queue>>
loopVars == <<lpc, cur, lastRes, handled, consumed, termRes, termLen, inFlight>>
sendVars == <<spc, starget, smsg, sseen, nextMsg, msgActor, msgRes, msgSeen, sentBefore, callTerm>>

\* ---- UniqueIdGenerator ----

\* x << n on values that stay far below 2^64 (now <= MaxMs)
Shl(x, n) == x * Pow2(n)

RECURSIVE BitOr(_, _)
BitOr(x, y) ==
    IF x = 0 THEN y
    ELSE IF y = 0 THEN x
    ELSE (IF x % 2 = 1 \/ y % 2 = 1 THEN 1 ELSE 0) + 2 * BitOr(x \div 2, y \div 2)

\* a counter that is never incremented
FetchAddStuck(c) == c

\* fetch_add(1) on an AtomicU16 wraps
FetchAdd(c) == (c + 1) % CounterMod

\* the value generate_snowflake returns for counter value inc at dur milliseconds
Snowflake(inc, dur) == BitOr(Shl(dur, CounterBits), inc)

\* ---- register ----

\* a register that ignores what start() returned
StartStateAlwaysHealthy(res) == "Healthy"

\* the (state, err) match of register, state part
StartState(res) ==
    CASE res = "Success" -> "Healthy"
      [] res = "GracefulEnd" -> "Stopped"
      [] res = "Crashing" -> "Crashed"

\* the (state, err) match of register, err part
StartErr(res) == res = "Crashing"

\* a register that spawns the loop whatever the state
SpawnsAlways(st) == TRUE

\* `if *state.read().unwrap() == ActorState::Healthy { tokio::spawn(..) }`
Spawns(st) == st = "Healthy"

Registered(a) == startResult[a] # "none"

Register(a, res) ==
    /\ ~Registered(a)
    /\ \A b \in Actors : b < a => Registered(b)
    /\ sf_increment' = FetchAdd(sf_increment)
    /\ id' = [id EXCEPT ![a] = Snowflake(sf_increment, now)]
    /\ calls' = calls + 1
    /\ idCall' = [idCall EXCEPT ![a] = calls]
    /\ idMs' = [idMs EXCEPT ![a] = now]
    /\ startResult' = [startResult EXCEPT ![a] = res]
    /\ starts' = [starts EXCEPT ![a] = @ + 1]
    /\ state' = [state EXCEPT ![a] = StartState(res)]
    /\ regState' = [regState EXCEPT ![a] = StartState(res)]
    /\ err' = [err EXCEPT ![a] = StartErr(res)]
    /\ refs' = [refs EXCEPT ![a] = 1]
    /\ rxAlive' = [rxAlive EXCEPT ![a] = Spawns(StartState(res))]
    /\ lpc' = [lpc EXCEPT ![a] = IF Spawns(StartState(res)) THEN "check" ELSE "none"]
    /\ UNCHANGED <<driverVars, now, probe, probeCall, probeMs, liveDropLen, queue, cur, lastRes, handled, consumed,
                   termRes, termLen, inFlight, sendVars>>

\* a register call (start() not Success, so no task is spawned) whose handle the
\* caller compares with the handles it holds and then drops
RegisterDropped ==
    /\ Registered(1)
    /\ calls < MaxCalls
    /\ sf_increment' = FetchAdd(sf_increment)
    /\ probe' = Snowflake(sf_increment, now)
    /\ calls' = calls + 1
    /\ probeCall' = calls
    /\ probeMs' = now
    /\ UNCHANGED <<driverVars, now, actorVars, loopVars, sendVars>>

\* the clock read by generate_snowflake advances
Tick ==
    /\ now < MaxMs
    /\ now' = now + 1
    /\ UNCHANGED <<driverVars, sf_increment, probe, calls, probeCall, probeMs, actorVars, loopVars, sendVars>>

\* ---- ActorSystem::stop / TokioActorDriver::stop ----

\* a stop that leaves the flag as it is
StopValueNoop(r) == r

\* is_running.swap(false)
StopValue(r) == FALSE

Stop ==
    /\ running' = StopValue(running)
    /\ stopCalled' = TRUE
    /\ stopLen' = IF stopCalled THEN stopLen ELSE [a \in Actors |-> Len(handled[a])]
    /\ UNCHANGED <<flagPreset, idVars, actorVars, loopVars, sendVars>>

\* ActorSystem::is_running
is_running == running

\* ---- the RwLock around ActorState ----

Readers(a) == {s \in Senders : spc[s] = "read" /\ starget[s] = a}

WriteLocked(a) == lpc[a] \in {"handling", "write"}

\* a read that does not wait for the write guard
CanReadUnlocked(a) == TRUE

\* state.read() returns
CanRead(a) == ~WriteLocked(a)

\* state.write() returns
CanWrite(a) == Readers(a) = {} /\ ~WriteLocked(a)

\* ---- ActorRef::clone, drop, eq ----

Sending(a) == {s \in Senders : spc[s] \in {"call", "read"} /\ starget[s] = a}

Clone(a) ==
    /\ refs[a] >= 1
    /\ refs[a] < MaxRefs
    /\ refs' = [refs EXCEPT ![a] = @ + 1]
    /\ UNCHANGED <<driverVars, idVars, startResult, starts, regState, id, idCall, idMs, state, err, liveDropLen,
                   rxAlive, queue,
                   loopVars, sendVars>>

\* a handle is dropped; the last one only when no send borrows it
DropRef(a) ==
    /\ refs[a] >= 1
    /\ refs[a] > 1 \/ Sending(a) = {}
    /\ refs' = [refs EXCEPT ![a] = @ - 1]
    /\ liveDropLen' = [liveDropLen EXCEPT ![a] =
                          IF refs[a] = 1 /\ running /\ state[a] = "Healthy"
                          THEN Len(handled[a]) ELSE @]
    /\ UNCHANGED <<driverVars, idVars, startResult, starts, regState, id, idCall, idMs, state, err, rxAlive, queue,
                   loopVars, sendVars>>

\* PartialEq for ActorRef: handles of actors a and b
RefEq(a, b) == id[a] = id[b]

\* ---- ActorRef::send ----

ErrOf(st) == IF st = "Stopped" THEN "ErrStopped" ELSE "ErrCrashed"

\* a send without the health test
SendResultAlwaysOk(seen, alive) == "Ok"

\* a send that reports the other dead state
SendResultSwapped(seen, alive) ==
    IF seen # "Healthy" THEN (IF seen = "Stopped" THEN "ErrCrashed" ELSE "ErrStopped")
    ELSE IF alive THEN "Ok" ELSE "Panic"

\* what send returns after reading `seen`, with the receiver alive or dropped;
\* "Panic" is the expect() on unbounded_send failing
SendResult(seen, alive) ==
    IF seen # "Healthy" THEN ErrOf(seen)
    ELSE IF alive THEN "Ok" ELSE "Panic"

\* a push at the head of the channel
EnqueueFront(q, m) == <<m>> \o q

\* unbounded_send on a connected channel
Enqueue(q, m) == Append(q, m)

\* send is called on a live handle of actor a; idle threads are interchangeable,
\* so the call is made by the first of them
SendCall(s, a) ==
    /\ spc[s] = "idle"
    /\ \A t \in Senders : t < s => spc[t] # "idle"
    /\ refs[a] >= 1
    /\ nextMsg <= MaxMsgs
    /\ spc' = [spc EXCEPT ![s] = "call"]
    /\ starget' = [starget EXCEPT ![s] = a]
    /\ smsg' = [smsg EXCEPT ![s] = nextMsg]
    /\ nextMsg' = nextMsg + 1
    /\ msgActor' = [msgActor EXCEPT ![nextMsg] = a]
    /\ sentBefore' = [sentBefore EXCEPT ![nextMsg] =
                         {k \in Msgs : msgActor[k] = a /\ msgRes[k] = "Ok"}]
    /\ callTerm' = [callTerm EXCEPT ![nextMsg] = termRes[a]]
    /\ UNCHANGED <<driverVars, idVars, actorVars, loopVars, sseen, msgRes, msgSeen>>

\* `let g = self.state.read()`: the read guard is taken and the state read
SendRead(s) ==
    /\ spc[s] = "call"
    /\ CanRead(starget[s])
    /\ spc' = [spc EXCEPT ![s] = "read"]
    /\ sseen' = [sseen EXCEPT ![s] = state[starget[s]]]
    /\ UNCHANGED <<driverVars, idVars, actorVars, loopVars, starget, smsg, nextMsg,
                   msgActor, msgRes, msgSeen, sentBefore, callTerm>>

\* the rest of send: the early return, or unbounded_send and its expect();
\* the read guard is released on the way out
SendDone(s) ==
    LET a == starget[s]
        r == SendResult(sseen[s], rxAlive[a])
    IN  /\ spc[s] = "read"
        /\ msgRes' = [msgRes EXCEPT ![smsg[s]] = r]
        /\ msgSeen' = [msgSeen EXCEPT ![smsg[s]] = sseen[s]]
        /\ queue' = [queue EXCEPT ![a] = IF r = "Ok" THEN Enqueue(@, smsg[s]) ELSE @]
        /\ spc' = [spc EXCEPT ![s] = IF r = "Panic" THEN "panicked" ELSE "idle"]
        /\ starget' = [starget EXCEPT ![s] = 1]
        /\ smsg' = [smsg EXCEPT ![s] = 0]
        /\ sseen' = [sseen EXCEPT ![s] = "none"]
        /\ UNCHANGED <<driverVars, idVars, startResult, starts, regState, id, idCall, idMs, state, err, refs, liveDropLen, rxAlive,
                       loopVars, nextMsg, msgActor, sentBefore, callTerm>>

\* ---- the dispatch loop spawned by register ----

LoopLive(a) == lpc[a] \in {"check", "recv", "lock", "handling", "write"}

\* a loop that never looks at the flag
FlagBreakNever(r) == FALSE

\* a loop that breaks whatever the flag says
FlagBreakAlways(r) == TRUE

\* the test of `if !running.load(Relaxed) { break; }`
FlagBreak(r) == ~r

\* `if !running.load(Relaxed) { break; }`
LoopCheck(a) ==
    /\ lpc[a] = "check"
    /\ IF FlagBreak(running)
       THEN /\ lpc' = [lpc EXCEPT ![a] = "exited"]
            /\ rxAlive' = [rxAlive EXCEPT ![a] = FALSE]
            /\ queue' = [queue EXCEPT ![a] = <<>>]
       ELSE /\ lpc' = [lpc EXCEPT ![a] = "recv"]
            /\ UNCHANGED <<rxAlive, queue>>
    /\ UNCHANGED <<driverVars, idVars, startResult, starts, regState, id, idCall, idMs, state, err, refs, liveDropLen, cur, lastRes,
                   handled, consumed, termRes, termLen, inFlight, sendVars>>

\* rx.next().await yields Some(msg)
LoopRecv(a) ==
    /\ lpc[a] = "recv"
    /\ queue[a] # <<>>
    /\ cur' = [cur EXCEPT ![a] = Head(queue[a])]
    /\ queue' = [queue EXCEPT ![a] = Tail(@)]
    /\ consumed' = [consumed EXCEPT ![a] = @ + 1]
    /\ lpc' = [lpc EXCEPT ![a] = "lock"]
    /\ UNCHANGED <<driverVars, idVars, startResult, starts, regState, id, idCall, idMs, state, err, refs, liveDropLen, rxAlive,
                   lastRes, handled, termRes, termLen, inFlight, sendVars>>

\* rx.next().await yields None: the queue is empty and every handle is dropped
LoopRecvClosed(a) ==
    /\ lpc[a] = "recv"
    /\ queue[a] = <<>>
    /\ refs[a] = 0
    /\ lpc' = [lpc EXCEPT ![a] = "exited"]
    /\ rxAlive' = [rxAlive EXCEPT ![a] = FALSE]
    /\ UNCHANGED <<driverVars, idVars, startResult, starts, regState, id, idCall, idMs, state, err, refs, liveDropLen, queue, cur,
                   lastRes, handled, consumed, termRes, termLen, inFlight, sendVars>>

\* a loop that goes on without waiting for handle() to return
AfterInvokeDetached == "check"

\* where the loop is after it invoked handle(msg): inside the call, which it
\* runs to its end before anything else
AfterInvoke == "handling"

\* state.write(), `if *state != Healthy { break; }`, and handle(msg) is invoked
LoopLock(a) ==
    /\ lpc[a] = "lock"
    /\ CanWrite(a)
    /\ IF state[a] # "Healthy"
       THEN /\ lpc' = [lpc EXCEPT ![a] = "exited"]
            /\ rxAlive' = [rxAlive EXCEPT ![a] = FALSE]
            /\ queue' = [queue EXCEPT ![a] = <<>>]
            /\ UNCHANGED <<handled, inFlight>>
       ELSE /\ lpc' = [lpc EXCEPT ![a] = AfterInvoke]
            /\ handled' = [handled EXCEPT ![a] = Append(@, cur[a])]
            /\ inFlight' = [inFlight EXCEPT ![a] = @ + 1]
            /\ UNCHANGED <<rxAlive, queue>>
    /\ cur' = [cur EXCEPT ![a] = 0]
    /\ UNCHANGED <<driverVars, idVars, startResult, starts, regState, id, idCall, idMs, state, err, refs, liveDropLen, lastRes,
                   consumed, termRes, termLen, sendVars>>

\* actor.handle(msg) returns res
HandleReturn(a, res) ==
    /\ lpc[a] = "handling"
    /\ lastRes' = [lastRes EXCEPT ![a] = res]
    /\ termRes' = [termRes EXCEPT ![a] = IF res # "Success" /\ @ = "none" THEN res ELSE @]
    /\ termLen' = [termLen EXCEPT ![a] =
                      IF res # "Success" /\ termRes[a] = "none" THEN Len(handled[a]) ELSE @]
    /\ inFlight' = [inFlight EXCEPT ![a] = @ - 1]
    /\ lpc' = [lpc EXCEPT ![a] = "write"]
    /\ UNCHANGED <<driverVars, idVars, actorVars, cur, handled, consumed, sendVars>>

\* a loop that never writes the state
NextStateKeep(st, res) == st

\* a loop that stops the actor after a successful handle()
NextStateSuccessStops(st, res) == IF res = "Success" THEN "Stopped" ELSE st

\* the match on handle()'s result
NextState(st, res) ==
    CASE res = "Success" -> st
      [] res = "GracefulEnd" -> "Stopped"
      [] res = "Crashing" -> "Crashed"

\* `*state = ...`, the write guard is released at the end of the `if let` block
LoopWrite(a) ==
    /\ lpc[a] = "write"
    /\ state' = [state EXCEPT ![a] = NextState(@, lastRes[a])]
    /\ lastRes' = [lastRes EXCEPT ![a] = "none"]
    /\ lpc' = [lpc EXCEPT ![a] = "check"]
    /\ UNCHANGED <<driverVars, idVars, startResult, starts, regState, id, idCall, idMs, err, refs, liveDropLen, rxAlive, queue, cur,
                   handled, consumed, termRes, termLen, inFlight, sendVars>>

LoopStep(a) ==
    \/ LoopCheck(a)
    \/ LoopRecv(a)
    \/ LoopRecvClosed(a)
    \/ LoopLock(a)
    \/ \E res \in HandleResults : HandleReturn(a, res)
    \/ LoopWrite(a)

SendStep(s) == SendRead(s) \/ SendDone(s)

\* ---- the system ----

\* TokioActorDriver::default() leaves is_running false (AtomicBool::default());
\* flagPreset is a driver whose flag the embedding code set to true through the
\* Arc that ActorSystemDriver::is_running hands out, before building the system
Init ==
    /\ flagPreset \in BOOLEAN
    /\ running = flagPreset
    /\ stopCalled = FALSE
    /\ stopLen = [a \in Actors |-> 0]
    /\ sf_increment = 0
    /\ now = 0
    /\ probe = -1
    /\ calls = 0
    /\ probeCall = -1
    /\ probeMs = -1
    /\ idCall = [a \in Actors |-> -1]
    /\ idMs = [a \in Actors |-> -1]
    /\ startResult = [a \in Actors |-> "none"]
    /\ starts = [a \in Actors |-> 0]
    /\ regState = [a \in Actors |-> "none"]
    /\ id = [a \in Actors |-> -1]
    /\ state = [a \in Actors |-> "none"]
    /\ err = [a \in Actors |-> FALSE]
    /\ refs = [a \in Actors |-> 0]
    /\ liveDropLen = [a \in Actors |-> -1]
    /\ rxAlive = [a \in Actors |-> FALSE]
    /\ queue = [a \in Actors |-> <<>>]
    /\ lpc = [a \in Actors |-> "none"]
    /\ cur = [a \in Actors |-> 0]
    /\ lastRes = [a \in Actors |-> "none"]
    /\ handled = [a \in Actors |-> <<>>]
    /\ consumed = [a \in Actors |-> 0]
    /\ termRes = [a \in Actors |-> "none"]
    /\ termLen = [a \in Actors |-> 0]
    /\ inFlight = [a \in Actors |-> 0]
    /\ spc = [s \in Senders |-> "idle"]
    /\ starget = [s \in Senders |-> 1]
    /\ smsg = [s \in Senders |-> 0]
    /\ sseen = [s \in Senders |-> "none"]
    /\ nextMsg = 1
    /\ msgActor = [m \in Msgs |-> 0]
    /\ msgRes = [m \in Msgs |-> "none"]
    /\ msgSeen = [m \in Msgs |-> "none"]
    /\ sentBefore = [m \in Msgs |-> {}]
    /\ callTerm = [m \in Msgs |-> "none"]

Next ==
    \/ \E a \in Actors, res \in StartResults : Register(a, res)
    \/ Stop
    \/ \E a \in Actors : Clone(a)
    \/ \E a \in Actors : DropRef(a)
    \/ \E s \in Senders, a \in Actors : SendCall(s, a)
    \/ \E s \in Senders : SendRead(s)
    \/ \E s \in Senders : SendDone(s)
    \/ \E a \in Actors : LoopCheck(a)
    \/ \E a \in Actors : LoopRecv(a)
    \/ \E a \in Actors : LoopRecvClosed(a)
    \/ \E a \in Actors : LoopLock(a)
    \/ \E a \in Actors, res \in HandleResults : HandleReturn(a, res)
    \/ \E a \in Actors : LoopWrite(a)

Spec == Init /\ [][Next]_vars

\* the tasks are scheduled fairly and a send that was called runs to its end;
\* nobody is obliged to call send, clone, drop, register or stop
FairSpec ==
    /\ Spec
    /\ \A a \in Actors : WF_vars(LoopStep(a))
    /\ \A s \in Senders : WF_vars(SendStep(s))

\* the id generator under many registrations: one handle is held, the later
\* ones are compared with it and dropped
InitIds == Init /\ ~flagPreset

NextIds ==
    \/ Register(1, "Success")
    \/ RegisterDropped
    \/ Tick

SpecIds == InitIds /\ [][NextIds]_vars

\* ---- the claims ----

SentTo(a) == {m \in Msgs : msgActor[m] = a}

Returned(m) == msgRes[m] # "none"

InSeq(m, q) == \E i \in 1..Len(q) : q[i] = m

\* C1: an actor whose start() returned GracefulEnd or Crashing gets no dispatch
\* loop, handle() is never invoked for it, and every send on its handle or a
\* clone returns Err(Stopped), respectively Err(Crashed).
C1_DeadFromStart ==
    \A a \in Actors :
        startResult[a] \in {"GracefulEnd", "Crashing"} =>
            /\ lpc[a] = "none"
            /\ handled[a] = <<>>
            /\ \A m \in SentTo(a) : Returned(m) =>
                   msgRes[m] = IF startResult[a] = "GracefulEnd"
                               THEN "ErrStopped" ELSE "ErrCrashed"

C1_Witness ==
    \E a \in Actors, m, k \in Msgs :
        /\ startResult[a] = "Crashing"
        /\ m # k /\ msgActor[m] = a /\ msgActor[k] = a
        /\ msgRes[m] = "ErrCrashed" /\ msgRes[k] = "ErrCrashed"
        /\ refs[a] = MaxRefs

\* C2: for an actor whose start() returned Success, the first send on its
\* handle, made before any message was consumed, returns Ok(()) under every
\* interleaving with the dispatch loop.
C2_FirstSendOk ==
    \A a \in Actors : \A m \in SentTo(a) :
        /\ startResult[a] = "Success"
        /\ \A k \in SentTo(a) : m <= k
        /\ consumed[a] = 0
        /\ Returned(m)
        => msgRes[m] = "Ok"

\* C3: per-actor delivery is FIFO: if send(m1) returned Ok before send(m2) was
\* called and handle(m2) was invoked, handle(m1) was invoked before it; handle()
\* is invoked only with messages a send enqueued, and never twice with one.
C3_Fifo ==
    \A a \in Actors :
        /\ \A i \in 1..Len(handled[a]) :
               /\ msgActor[handled[a][i]] = a
               /\ msgRes[handled[a][i]] = "Ok"
               /\ \A j \in 1..Len(handled[a]) : handled[a][i] = handled[a][j] => i = j
        /\ \A j \in 1..Len(handled[a]) : \A m1 \in sentBefore[handled[a][j]] :
               \E i \in 1..(j - 1) : handled[a][i] = m1

C3_Witness ==
    \E a \in Actors :
        /\ Len(handled[a]) >= 2
        /\ handled[a][1] \in sentBefore[handled[a][2]]

\* C4: once a handle() invocation has returned Crashing, no further handle()
\* invocation occurs for that actor, the messages queued behind it included,
\* and every send that starts after that return yields Err(Crashed).
C4_AfterCrash ==
    /\ \A a \in Actors : termRes[a] = "Crashing" =>
           /\ Len(handled[a]) = termLen[a]
           /\ lpc[a] # "handling"
    /\ \A m \in Msgs : callTerm[m] = "Crashing" /\ Returned(m) => msgRes[m] = "ErrCrashed"

C4_Witness ==
    \E a \in Actors, m, k \in Msgs :
        /\ termRes[a] = "Crashing"
        /\ msgActor[m] = a /\ msgRes[m] = "Ok" /\ ~InSeq(m, handled[a])
        /\ callTerm[m] = "none"
        /\ consumed[a] > Len(handled[a])
        /\ lpc[a] = "exited"
        /\ msgActor[k] = a /\ callTerm[k] = "Crashing" /\ msgRes[k] = "ErrCrashed"

\* C5: once a handle() invocation has returned GracefulEnd, no further handle()
\* invocation occurs for that actor, the messages queued behind it included,
\* and every send that starts after that return yields Err(Stopped).
C5_AfterGracefulEnd ==
    /\ \A a \in Actors : termRes[a] = "GracefulEnd" =>
           /\ Len(handled[a]) = termLen[a]
           /\ lpc[a] # "handling"
    /\ \A m \in Msgs : callTerm[m] = "GracefulEnd" /\ Returned(m) => msgRes[m] = "ErrStopped"

C5_Witness ==
    \E a \in Actors, m, k \in Msgs :
        /\ termRes[a] = "GracefulEnd"
        /\ msgActor[m] = a /\ msgRes[m] = "Ok" /\ ~InSeq(m, handled[a])
        /\ callTerm[m] = "none"
        /\ consumed[a] > Len(handled[a])
        /\ lpc[a] = "exited"
        /\ msgActor[k] = a /\ callTerm[k] = "GracefulEnd" /\ msgRes[k] = "ErrStopped"

\* C6: a send that reads a state other than Healthy returns Err with exactly
\* the state it read, and its message is never enqueued nor passed to handle().
C6_RejectedSend ==
    \A m \in Msgs : Returned(m) /\ msgSeen[m] # "Healthy" =>
        /\ msgSeen[m] = "Stopped" => msgRes[m] = "ErrStopped"
        /\ msgSeen[m] = "Crashed" => msgRes[m] = "ErrCrashed"
        /\ msgSeen[m] \in {"Stopped", "Crashed"}
        /\ \A a \in Actors :
               ~InSeq(m, queue[a]) /\ ~InSeq(m, handled[a]) /\ cur[a] # m

C6_Witness ==
    \E m, k \in Msgs, a \in Actors :
        /\ msgActor[m] = a /\ msgActor[k] = a
        /\ msgSeen[m] = "Stopped" /\ msgRes[m] = "ErrStopped"
        /\ msgRes[k] = "Ok" /\ queue[a] = <<k>>

\* C7: after ActorSystem::stop() has returned, is_running() reports false, in
\* that state and in every later one.
C7_StoppedStaysStopped == stopCalled => ~is_running

C7_Witness ==
    /\ stopCalled /\ flagPreset /\ ~is_running
    /\ \E a \in Actors : Registered(a) /\ lpc[a] = "exited"

\* C8: after ActorSystem::stop(), every dispatch loop that is still live
\* eventually exits, under fair scheduling of the loop tasks and with no
\* further action by senders.
C8_LoopsExitAfterStop ==
    \A a \in Actors : [](stopCalled /\ LoopLive(a) => <>(~LoopLive(a)))

\* ---- C9 ----
\* C9: handles returned by two separate register calls never compare equal,
\* however many registrations happen and whatever the clock does.
C9_SeparateHandlesDiffer ==
    /\ \A a, b \in Actors : Registered(a) /\ Registered(b) /\ a # b => ~RefEq(a, b)
    /\ \A a \in Actors : Registered(a) /\ probe # -1 => probe # id[a]

\* ---- C10 ----
\* C10: register maps start() as Success -> (Healthy, no error), GracefulEnd ->
\* (Stopped, no error), Crashing(e) -> (Crashed, Some(e)); it returns a handle in
\* all three cases, an error exactly when the state is Crashed, and spawns a
\* dispatch loop exactly when the state is Healthy.
C10_RegisterMapping ==
    \A a \in Actors : Registered(a) =>
        /\ startResult[a] = "Success" => regState[a] = "Healthy" /\ ~err[a]
        /\ startResult[a] = "GracefulEnd" => regState[a] = "Stopped" /\ ~err[a]
        /\ startResult[a] = "Crashing" => regState[a] = "Crashed" /\ err[a]
        /\ id[a] >= 0
        /\ err[a] <=> regState[a] = "Crashed"
        /\ lpc[a] # "none" <=> regState[a] = "Healthy"

C10_Witness ==
    \E a \in Actors : startResult[a] = "GracefulEnd" /\ regState[a] = "Stopped" /\ refs[a] >= 1

\* ---- C11 ----
\* C11: the lifecycle state is monotone: the only transitions are
\* Healthy -> Stopped and Healthy -> Crashed, a Stopped or Crashed actor keeps
\* its state for ever, and a handle() that returns Success leaves it Healthy.
C11_Monotone ==
    [][\A a \in Actors :
          /\ state[a] \in {"Stopped", "Crashed"} => state'[a] = state[a]
          /\ state[a] = "Healthy" => state'[a] \in {"Healthy", "Stopped", "Crashed"}
          /\ lpc[a] = "write" /\ lastRes[a] = "Success" /\ lpc'[a] # "write"
                 => state'[a] = "Healthy"]_vars

C11_Witness ==
    \E a \in Actors :
        /\ Len(handled[a]) >= 2
        /\ termRes[a] = "Crashing"
        /\ state[a] = "Crashed"
        /\ lpc[a] = "exited"

\* ---- C12 ----
\* C12: at most one task is inside an actor's body: start() is invoked exactly
\* once, inside register and so before any handle() invocation begins, and at
\* most one handle() invocation is in flight at any time.
C12_Isolation ==
    \A a \in Actors :
        /\ inFlight[a] <= 1
        /\ starts[a] = IF Registered(a) THEN 1 ELSE 0
        /\ inFlight[a] > 0 \/ handled[a] # <<>> => starts[a] = 1 /\ lpc[a] # "none"

C12_Witness ==
    \E a \in Actors :
        /\ inFlight[a] = 1
        /\ Len(handled[a]) = 2
        /\ \E s \in Senders : spc[s] = "call" /\ starget[s] = a

\* ---- C13 ----
\* C13: whenever an actor's state reads Healthy its dispatch loop has not
\* exited and the receiver is alive, so a send that reads Healthy enqueues and
\* never reaches the expect() on a disconnected channel.
C13_HealthyHasLoop ==
    /\ \A a \in Actors : state[a] = "Healthy" => LoopLive(a) /\ rxAlive[a]
    /\ \A m \in Msgs : msgSeen[m] = "Healthy" => msgRes[m] = "Ok"

\* ---- C14 ----
\* C14: the lock of the lifecycle cell is never held while handle() executes:
\* whenever a handle() invocation is in flight, a send on that actor's handle
\* can take the read guard.
C14_LockFreeWhileHandling ==
    \A a \in Actors : inFlight[a] > 0 => CanRead(a)

\* ---- C15 ----
\* C15: a dispatch loop tests the running flag only before it awaits the next
\* message: after stop() has returned it begins at most one further handle()
\* invocation, and after that one it only reaches its flag test and exits,
\* leaving the remaining queued messages unhandled.
C15_AtMostOneAfterStop ==
    \A a \in Actors : stopCalled =>
        /\ Len(handled[a]) <= stopLen[a] + 1
        /\ Len(handled[a]) = stopLen[a] + 1 =>
               lpc[a] \in {"handling", "write", "check", "exited"}
        /\ lpc[a] = "exited" => queue[a] = <<>> /\ ~rxAlive[a]

C15_Witness ==
    \E a \in Actors, m \in Msgs :
        /\ stopCalled
        /\ Len(handled[a]) = stopLen[a] + 1
        /\ lpc[a] = "exited"
        /\ termRes[a] = "none"
        /\ msgActor[m] = a /\ msgRes[m] = "Ok" /\ ~InSeq(m, handled[a])

\* ---- C16 ----
OkSent(a) == {m \in SentTo(a) : msgRes[m] = "Ok"}

Drained(a) ==
    /\ \A m \in OkSent(a) : InSeq(m, handled[a])
    /\ \A i, j \in 1..Len(handled[a]) : i < j => handled[a][j] \notin sentBefore[handled[a][i]]

\* C16 as stated: once every clone of the handle was dropped while the actor
\* was Healthy and the running flag true, the loop exits only after it invoked
\* handle(), in order, on every message enqueued before that drop (as long as
\* each invocation returns Success).
C16_DrainsAfterLastDrop ==
    \A a \in Actors :
        liveDropLen[a] >= 0 /\ lpc[a] = "exited" /\ termRes[a] = "none" => Drained(a)

\* C16, amended: once every clone of the handle was dropped while the actor
\* was Healthy and the running flag true, the loop eventually exits; if stop()
\* is not called before it exits, it first invokes handle(), in order, on every
\* message enqueued before that drop (as long as each invocation returns
\* Success).
C16_DrainsUnlessStopped ==
    /\ [](\A a \in Actors :
            liveDropLen[a] >= 0 /\ lpc[a] = "exited" /\ termRes[a] = "none" /\ ~stopCalled
                => Drained(a))
    /\ \A a \in Actors : [](liveDropLen[a] >= 0 => <>(lpc[a] = "exited"))

C16_Witness ==
    \E a \in Actors :
        /\ liveDropLen[a] = 0
        /\ lpc[a] = "exited"
        /\ termRes[a] = "none"
        /\ ~stopCalled
        /\ Len(handled[a]) = MaxMsgs
        /\ Cardinality(OkSent(a)) = MaxMsgs

\* ---- C17 ----
\* C17: the generator returns (elapsed_ms << 16) | c, where c is a 16-bit
\* counter incremented by one modulo 65536 on every call and elapsed_ms never
\* decreases; so two ids are equal only if they were produced in the same
\* millisecond by calls whose indices differ by a nonzero multiple of 65536,
\* and two ids fewer than 65536 calls apart are distinct.
C17_IdFormat ==
    /\ sf_increment = calls % 65536
    /\ \A a \in Actors : Registered(a) =>
           /\ id[a] = idMs[a] * 65536 + (idCall[a] % 65536)
           /\ idMs[a] <= now
           /\ probe # -1 =>
                  /\ probe = probeMs * 65536 + (probeCall % 65536)
                  /\ idCall[a] < probeCall /\ idMs[a] <= probeMs /\ probeMs <= now
                  /\ probe = id[a] =>
                         /\ probeMs = idMs[a]
                         /\ (probeCall - idCall[a]) % 65536 = 0
                  /\ probeCall - idCall[a] < 65536 => probe # id[a]

C17_Witness ==
    \E a \in Actors :
        /\ Registered(a)
        /\ probe = id[a]
        /\ probeCall - idCall[a] = 65536
        /\ now = MaxMs

\* ---- C18 ----
\* C18: with stop() never called and every handle() returning Success, every
\* message whose send returned Ok(()) is eventually passed to handle(); so the
\* loop never exits leaving such a message behind.
C18_OkMessageIsHandled ==
    \A a \in Actors : \A m \in SentTo(a) :
        /\ msgRes[m] = "Ok"
        /\ ~stopCalled
        /\ termRes[a] = "none"
        /\ lpc[a] = "exited"
        => InSeq(m, handled[a])

\* ---- C19 ----
\* C19: on a system built on a default-constructed driver, is_running() is
\* true in every state before stop() is first called.
C19_DefaultIsRunning == ~flagPreset /\ ~stopCalled => is_running

====
